---- MODULE Spec2Model ----
(***************************************************************************)
(* ModelQuality (src/Model_Selection.py): Monte Carlo estimate of the      *)
(* Type I error rate and the power of a switchback-test analysis.          *)
(*                                                                         *)
(* Numbers are fixed point: outcome values and MDE in hundredths (MDE 101  *)
(* is 1.01), p-values and alpha in thousandths (alpha 50 is 0.05).         *)
(* The regression estimators (statsmodels OLS / mixedlm) are external: a   *)
(* fit returns some p-value or raises, and returns the same p-value when   *)
(* it is given the same outcome, design and clusters.                      *)
(***************************************************************************)
EXTENDS Integers, Sequences, FiniteSets, TLC

\* ------------------------------------------------------------- bounds
MaxRows == 3
MaxSims == 2

\* ---------------------------------------------------------- constants
\* numpy's NaN: a missing location, the period_city of a row that groupby
\* dropped, an undefined p-value.  It compares false with everything.
NaN == -1
\* a local name that no statement has bound yet
Unset == NaN - 1
alpha == 50

Methods == {"ols", "mlm", "gls"}
MDEs == {100, 101}
Times == {0, 1}
Frequencies == {1, 2}
Locations == {1, 2}
\* the outcome of the j-th row of a frame: 0.00, 12.00, 24.00, ...
Outcome(j) == 1200 * (j - 1)
\* what a fit may return: 0.010, or the undefined p-value of a degenerate fit
PValues == {10, NaN}

VARIABLES
  data, method, agg, sims, MDE, Frequency,      \* the arguments of the call
  pc,                                           \* position in ModelQuality
  outcome,                                      \* working frame: data[outcome_var] / data_agg[outcome_var]
  period_city,                                  \* working frame: data['period_city']
  unique_PeriodCity,                            \* the clusters a replicate draws for
  variant, outcome_sim, binom,                  \* per-replicate columns and draw
  p_value_AA, p_value_AB,
  significant_resultsAA, significant_resultsAB,
  i,                                            \* loop index of for i in range(0, sims)
  performance,                                  \* the returned value
  ndraws, nfits,                                \* calls of np.random.binomial / of .fit()
  fit_raised                                    \* some fit raised in this call

vars == <<data, method, agg, sims, MDE, Frequency, pc, outcome, period_city,
          unique_PeriodCity, variant, outcome_sim, binom, p_value_AA,
          p_value_AB, significant_resultsAA, significant_resultsAB, i,
          performance, ndraws, nfits, fit_raised>>

args == <<data, method, agg, sims, MDE, Frequency>>

\* ------------------------------------------------------------ helpers
Range(f) == {f[x] : x \in DOMAIN f}

RECURSIVE Sum(_)
Sum(s) == IF s = <<>> THEN 0 ELSE Head(s) + Sum(Tail(s))

\* np.sum in the place of np.mean
Mean_sum(s) == [num |-> Sum(s), den |-> 1]

\* np.mean of a list of 0.0/1.0, as the exact fraction num/den
Mean(s) == [num |-> Sum(s), den |-> Len(s)]

\* not (p_value >= alpha): an undefined p-value counts as significant
Significant_nan(p) == IF p < alpha THEN 1 ELSE 0

\* float(p_value < alpha): every comparison with NaN is False
Significant(p) == IF p # NaN /\ p < alpha THEN 1 ELSE 0

\* value * MDE
Mul(y, mde) == (y * mde) \div 100

\* pd.Grouper(key=time_var, freq=Frequency): the left edge of the calendar
\* aligned bucket of width F that holds t
Floor(t, F) == (t \div F) * F

\* groupby drops the rows whose key is missing (dropna=True)
Present(d) == {j \in DOMAIN d : d[j].loc # NaN}

\* sorted distinct values of an integer set, ascending
SortedSeq(S) ==
  [k \in 1..Cardinality(S) |->
     CHOOSE v \in S : Cardinality({w \in S : w < v}) = k - 1]

\* ------------------------------------------- order-level cluster keys
\* the group of a row under groupby([Grouper(time), location])
GroupKey(r, F) == <<Floor(r.t, F), r.loc>>

Groups(d, F) == {GroupKey(d[j], F) : j \in Present(d)}

\* sort=True: groups are numbered in (bucket, location) order
KeyLess(g, h) == g[1] < h[1] \/ (g[1] = h[1] /\ g[2] < h[2])

GroupNo(g, d, F) == Cardinality({h \in Groups(d, F) : KeyLess(h, g)})

\* the index of the Series the lambda returns for group g
RECURSIVE GroupIndex(_, _, _, _)
GroupIndex(g, d, F, j) ==
  IF j > Len(d) THEN <<>>
  ELSE (IF d[j].loc # NaN /\ GroupKey(d[j], F) = g THEN <<d[j].idx>> ELSE <<>>)
       \o GroupIndex(g, d, F, j + 1)

\* gb.apply stacks the groups' Series into a two-level (group number, row
\* label) index only when their indexes differ; when they are all the same
\* (a single group) it returns a wide frame with a one-level index, and
\* s.index.get_level_values(1) raises; so it does with no group at all
ApplyIsWide(d, F) ==
  \/ Groups(d, F) = {}
  \/ \A g, h \in Groups(d, F) : GroupIndex(g, d, F, 1) = GroupIndex(h, d, F, 1)

\* data.loc[order, 'period_city'] = ... selects every row carrying a label
\* of order: with a repeated label it selects more rows than it has values
LocLengthMismatch(d) ==
  \E j \in Present(d), k \in DOMAIN d : j # k /\ d[j].idx = d[k].idx

AssignRaises(d, F) == ApplyIsWide(d, F) \/ LocLengthMismatch(d)

\* data['period_city'] after line 81: the group number, NaN for a row that
\* is in no group
PeriodCity(d, F) ==
  [j \in DOMAIN d |->
     IF j \in Present(d) THEN GroupNo(GroupKey(d[j], F), d, F) ELSE NaN]

\* data.sort_values('period_city') then .unique(): ascending, NaN last
UniquePeriodCity(col) ==
  SortedSeq(Range(col) \ {NaN}) \o (IF NaN \in Range(col) THEN <<NaN>> ELSE <<>>)

\* ------------------------------------------------- aggregated clusters
\* the group of a row under groupby([location, Grouper(time)])
AggKey(r, F) == <<r.loc, Floor(r.t, F)>>

AggGroups(d, F) == {AggKey(d[j], F) : j \in Present(d)}

AggMembers(g, d, F) == {j \in Present(d) : AggKey(d[j], F) = g}

RECURSIVE SumY(_, _)
SumY(d, S) ==
  IF S = {} THEN 0
  ELSE LET j == CHOOSE x \in S : TRUE IN d[j].y + SumY(d, S \ {j})

\* data_agg[outcome_var]: one row per group, in index order, holding the mean
AggOutcome(d, F) ==
  LET G == AggGroups(d, F)
  IN  [k \in 1..Cardinality(G) |->
         LET g == CHOOSE h \in G : Cardinality({x \in G : KeyLess(x, h)}) = k - 1
             M == AggMembers(g, d, F)
         IN  SumY(d, M) \div Cardinality(M)]

\* the key column of data_agg: its rows are the groups themselves
AggPeriodCity(d, F) == [k \in 1..Cardinality(AggGroups(d, F)) |-> k - 1]

\* ------------------------------------------------------- one replicate
\* one draw per observation: np.random.binomial(1, 0.5, len(data))
NDraws_rows == Len(outcome)

\* the length passed to np.random.binomial
NDraws == Len(unique_PeriodCity)

\* the clusters of unique_PeriodCity[binom == 1]
Drawn(b) ==
  {unique_PeriodCity[k] :
     k \in {x \in DOMAIN b \cap DOMAIN unique_PeriodCity : b[x] = 1}}

\* the draw used as a per-row column: data['variant'] = binom
Variant_perRow(b) ==
  [j \in DOMAIN outcome |-> IF j \in DOMAIN b THEN b[j] ELSE 0]

\* lines 86-89 / 49-52: variant is 1 exactly for the rows whose cluster was
\* drawn (isin matches NaN with NaN)
Variant(b) ==
  [j \in DOMAIN outcome |-> IF period_city[j] \in Drawn(b) THEN 1 ELSE 0]

\* line 92 / 56 left out: the effect is applied to the column as the last
\* replicate left it
OutcomeSim_compound(v) ==
  [j \in DOMAIN outcome |->
     LET base == IF j \in DOMAIN outcome_sim THEN outcome_sim[j] ELSE outcome[j]
     IN  IF v[j] = 1 THEN Mul(base, MDE) ELSE base]

\* MDE added to the outcome in the place of multiplying it
OutcomeSim_additive(v) ==
  [j \in DOMAIN outcome |->
     IF v[j] = 1 THEN outcome[j] + MDE ELSE outcome[j]]

\* lines 92-93 / 56-57
OutcomeSim(v) ==
  [j \in DOMAIN outcome |->
     IF v[j] = 1 THEN Mul(outcome[j], MDE) ELSE outcome[j]]

\* the effect written into the real outcome column
OutcomeAfterReplicate_inplace(v) ==
  [j \in DOMAIN outcome |->
     IF v[j] = 1 THEN Mul(outcome[j], MDE) ELSE outcome[j]]

\* lines 92-93 / 56-57 write outcome_sim only: data[outcome_var] stays
OutcomeAfterReplicate(v) == outcome

\* the failing replicate drawn again
FitFailure_retry == "randomize"

\* only the method name is checked up front
ConfigError_methodOnly == method \notin {"ols", "mlm"}

\* lines 30-33
ConfigError == method \notin {"ols", "mlm"} \/ (agg /\ method = "mlm")

\* no try/except around a fit: the exception leaves ModelQuality
FitFailure == "error_fit"

\* ---------------------------------------------------------------- Init
RowLeq(r, s) ==
  \/ r.t < s.t
  \/ r.t = s.t /\ r.loc <= s.loc

\* rows in chronological order (ties by location)
Chronological(d) == \A j \in 1..(Len(d) - 1) : RowLeq(d[j], d[j + 1])

Tables(locs) ==
  {d \in UNION {[1..n -> [t : Times, loc : locs]] : n \in 1..MaxRows}
     : Chronological(d)}

\* the frame d with the row labels lab as its index
WithIndex(d, lab) ==
  [j \in DOMAIN d |->
     [idx |-> lab[j], t |-> d[j].t, loc |-> d[j].loc, y |-> Outcome(j)]]

InitLocals ==
  /\ pc = "validate"
  /\ outcome = <<>>
  /\ period_city = <<>>
  /\ unique_PeriodCity = <<>>
  /\ variant = <<>>
  /\ outcome_sim = <<>>
  /\ binom = <<>>
  /\ p_value_AA = Unset
  /\ p_value_AB = Unset
  /\ significant_resultsAA = <<>>
  /\ significant_resultsAB = <<>>
  /\ i = 0
  /\ performance = <<>>
  /\ ndraws = 0
  /\ nfits = 0
  /\ fit_raised = FALSE

\* a call on a frame with the default index 1..n
Init ==
  /\ data \in {WithIndex(d, [j \in DOMAIN d |-> j]) : d \in Tables(Locations)}
  /\ method \in Methods
  /\ agg \in BOOLEAN
  /\ sims \in 1..MaxSims
  /\ MDE \in MDEs
  /\ Frequency \in Frequencies
  /\ InitLocals

\* ------------------------------------------------------------- actions
\* lines 30-43
Validate ==
  /\ pc = "validate"
  /\ IF ConfigError THEN
       /\ pc' = "error_config"
       /\ UNCHANGED outcome
     ELSE
       /\ pc' = IF agg THEN "aggregate" ELSE "assign"
       /\ outcome' = [j \in DOMAIN data |-> data[j].y]
  /\ UNCHANGED <<args, period_city, unique_PeriodCity, variant, outcome_sim,
                 binom, p_value_AA, p_value_AB, significant_resultsAA,
                 significant_resultsAB, i, performance, ndraws, nfits,
                 fit_raised>>

\* line 46
Aggregate ==
  /\ pc = "aggregate"
  /\ outcome' = AggOutcome(data, Frequency)
  /\ period_city' = AggPeriodCity(data, Frequency)
  /\ unique_PeriodCity' = AggPeriodCity(data, Frequency)
  /\ pc' = "randomize"
  /\ UNCHANGED <<args, variant, outcome_sim, binom, p_value_AA, p_value_AB,
                 significant_resultsAA, significant_resultsAB, i, performance,
                 ndraws, nfits, fit_raised>>

\* lines 74-83
Assign ==
  /\ pc = "assign"
  /\ IF AssignRaises(data, Frequency) THEN
       /\ pc' = "error_assign"
       /\ UNCHANGED <<period_city, unique_PeriodCity>>
     ELSE
       /\ period_city' = PeriodCity(data, Frequency)
       /\ unique_PeriodCity' = UniquePeriodCity(PeriodCity(data, Frequency))
       /\ pc' = "randomize"
  /\ UNCHANGED <<args, outcome, variant, outcome_sim, binom, p_value_AA,
                 p_value_AB, significant_resultsAA, significant_resultsAB, i,
                 performance, ndraws, nfits, fit_raised>>

\* lines 48-57 (aggregated) and 85-93 (order level) with the draw b
RandomizeWith(b) ==
  /\ pc = "randomize"
  /\ binom' = b
  /\ ndraws' = ndraws + 1
  /\ variant' = Variant(b)
  /\ IF agg /\ method # "ols" THEN
       \* lines 68-69
       /\ pc' = "error_config"
       /\ UNCHANGED <<outcome, outcome_sim>>
     ELSE
       /\ outcome_sim' = OutcomeSim(variant')
       /\ outcome' = OutcomeAfterReplicate(variant')
       /\ pc' = "fitAA"
  /\ UNCHANGED <<args, period_city, unique_PeriodCity, p_value_AA, p_value_AB,
                 significant_resultsAA, significant_resultsAB, i, performance,
                 nfits, fit_raised>>

Randomize == \E b \in [1..NDraws -> {0, 1}] : RandomizeWith(b)

\* lines 60-62 / 97-100 / 109-110: the fit on the real outcome
FitAA ==
  /\ pc = "fitAA"
  /\ nfits' = nfits + 1
  /\ \/ \E p \in PValues :
          /\ p_value_AA' = p
          /\ pc' = "fitAB"
          /\ UNCHANGED fit_raised
     \/ /\ fit_raised' = TRUE
        /\ pc' = FitFailure
        /\ UNCHANGED p_value_AA
  /\ UNCHANGED <<args, outcome, period_city, unique_PeriodCity, variant,
                 outcome_sim, binom, p_value_AB, significant_resultsAA,
                 significant_resultsAB, i, performance, ndraws>>

\* lines 64-66 / 102-105 / 113-114: the fit on the synthetic outcome; with
\* the same outcome values it is the fit of FitAA over again
FitAB ==
  /\ pc = "fitAB"
  /\ nfits' = nfits + 1
  /\ \/ \E p \in PValues :
          /\ outcome_sim = outcome => p = p_value_AA
          /\ p_value_AB' = p
          /\ pc' = "record"
          /\ UNCHANGED fit_raised
     \/ /\ outcome_sim # outcome
        /\ fit_raised' = TRUE
        /\ pc' = FitFailure
        /\ UNCHANGED p_value_AB
  /\ UNCHANGED <<args, outcome, period_city, unique_PeriodCity, variant,
                 outcome_sim, binom, p_value_AA, significant_resultsAA,
                 significant_resultsAB, i, performance, ndraws>>

\* lines 71-72 / 116-117, and the loop's next index
Record ==
  /\ pc = "record"
  /\ significant_resultsAA' = Append(significant_resultsAA, Significant(p_value_AA))
  /\ significant_resultsAB' = Append(significant_resultsAB, Significant(p_value_AB))
  /\ i' = i + 1
  /\ pc' = IF i + 1 < sims THEN "randomize" ELSE "summary"
  /\ UNCHANGED <<args, outcome, period_city, unique_PeriodCity, variant,
                 outcome_sim, binom, p_value_AA, p_value_AB, performance,
                 ndraws, nfits, fit_raised>>

\* lines 119-122
Summary ==
  /\ pc = "summary"
  /\ performance' = <<Mean(significant_resultsAA), Mean(significant_resultsAB)>>
  /\ pc' = "done"
  /\ UNCHANGED <<args, outcome, period_city, unique_PeriodCity, variant,
                 outcome_sim, binom, p_value_AA, p_value_AB,
                 significant_resultsAA, significant_resultsAB, i, ndraws,
                 nfits, fit_raised>>

Next ==
  \/ Validate
  \/ Aggregate
  \/ Assign
  \/ Randomize
  \/ FitAA
  \/ FitAB
  \/ Record
  \/ Summary

Spec == Init /\ [][Next]_vars

\* ------------------------------------------- the assigner on any frame
\* row labels that repeat label 1
Labels(d) == {lab \in [DOMAIN d -> 1..MaxRows] : \A j \in DOMAIN d : lab[j] \in {1, j}}

\* an order-level call on a frame that may miss locations and repeat labels
InitAssign ==
  /\ \E d \in Tables(Locations \cup {NaN}) : \E lab \in Labels(d) : data = WithIndex(d, lab)
  /\ method \in {"ols", "mlm"}
  /\ agg = FALSE
  /\ sims = 1
  /\ MDE = 101
  /\ Frequency \in Frequencies
  /\ InitLocals

NextAssign ==
  \/ Validate
  \/ Assign

SpecAssign == InitAssign /\ [][NextAssign]_vars

\* ------------------------------------------------------------- claims
\* what the claims are stated against: the caller's data, not the frame
\* ModelQuality works on
SameCluster(j, k) ==
  /\ data[j].loc = data[k].loc
  /\ Floor(data[j].t, Frequency) = Floor(data[k].t, Frequency)

NumClusters ==
  Cardinality({<<data[j].loc, Floor(data[j].t, Frequency)>> : j \in DOMAIN data})

RealOutcome ==
  IF agg THEN AggOutcome(data, Frequency) ELSE [j \in DOMAIN data |-> data[j].y]

InReplicate == pc \in {"fitAA", "fitAB", "record"}

Degenerate ==
  /\ variant # <<>>
  /\ \A j, k \in DOMAIN variant : variant[j] = variant[k]

\* C1: a configuration error is raised exactly for an unknown method and for
\* agg with mlm, and then before any draw and before any fit.
C1_ConfigErrorUpFront ==
  LET bad == method \notin {"ols", "mlm"} \/ (agg /\ method = "mlm")
  IN  /\ pc = "error_config" => bad /\ ndraws = 0 /\ nfits = 0
      /\ bad => pc \in {"validate", "error_config"}

C1_Witness ==
  /\ pc = "error_config"
  /\ agg
  /\ method = "mlm"

\* C2: the returned Type I error rate and power are each the mean of exactly
\* sims indicators, each 0 or 1, and so lie in [0, 1].
C2_SummaryInUnitInterval ==
  pc = "done" =>
    /\ Len(performance) = 2
    /\ Len(significant_resultsAA) = sims
    /\ Len(significant_resultsAB) = sims
    /\ \A k \in 1..sims : /\ significant_resultsAA[k] \in {0, 1}
                          /\ significant_resultsAB[k] \in {0, 1}
    /\ performance[1].den = sims
    /\ performance[2].den = sims
    /\ performance[1].num = Sum(significant_resultsAA)
    /\ performance[2].num = Sum(significant_resultsAB)
    /\ \A k \in 1..2 : /\ 0 <= performance[k].num
                       /\ performance[k].num <= performance[k].den

C2_Witness ==
  /\ pc = "done"
  /\ sims = 2
  /\ performance[1].num = 1
  /\ performance[2].num = 2

\* C3: once a replicate has written the treatment label, observations of the
\* same region-time cluster carry the same label: at order level the label is
\* 1 exactly for the rows whose period_city was drawn, and the aggregated
\* frame holds one row per cluster.
C3_SameClusterSameLabel ==
  variant # <<>> =>
    /\ DOMAIN variant = DOMAIN outcome
    /\ ~agg => /\ DOMAIN variant = DOMAIN data
               /\ \A j, k \in DOMAIN data :
                    SameCluster(j, k) => variant[j] = variant[k]
               /\ \A j \in DOMAIN data :
                    variant[j] = 1 <=>
                      \E k \in DOMAIN binom :
                        binom[k] = 1 /\ unique_PeriodCity[k] = period_city[j]
    /\ agg => /\ Len(variant) = NumClusters
              /\ \A j, k \in DOMAIN variant :
                   period_city[j] = period_city[k] => j = k

C3_Witness ==
  /\ InReplicate
  /\ ~agg
  /\ \E j, k \in DOMAIN data :
       /\ j # k
       /\ SameCluster(j, k)
       /\ variant[j] = 1
       /\ variant[k] = 1
  /\ \E j \in DOMAIN data : variant[j] = 0

\* C5: in every replicate and both modes, a row's synthetic outcome is its
\* real outcome when its label is 0 and its real outcome times MDE when its
\* label is 1, never a value carried over from the replicate before.
C5_SyntheticOutcome ==
  variant # <<>> =>
    LET real == RealOutcome
    IN  outcome_sim = [j \in DOMAIN real |->
                         IF variant[j] = 0 THEN real[j]
                         ELSE (real[j] * MDE) \div 100]

C5_Witness ==
  /\ pc = "fitAA"
  /\ i = 1
  /\ MDE = 101
  /\ \E j \in DOMAIN outcome_sim :
       /\ variant[j] = 1
       /\ outcome[j] # 0
       /\ outcome_sim[j] # outcome[j]
  /\ \E j \in DOMAIN outcome_sim : variant[j] = 0 /\ outcome[j] # 0

\* C6: a replicate draws once per distinct region-time cluster, not once per
\* observation; a cluster's label is its own draw, whatever its size; and
\* every labelling of the clusters can be drawn.
C6_OneDrawPerCluster ==
  /\ binom # <<>> =>
       /\ Len(binom) = NumClusters
       /\ variant = [j \in DOMAIN outcome |-> binom[period_city[j] + 1]]
  /\ pc = "randomize" =>
       \A b \in [1..NumClusters -> {0, 1}] : ENABLED (Randomize /\ binom' = b)

C6_Witness ==
  /\ InReplicate
  /\ ~agg
  /\ Len(variant) = 3
  /\ binom = <<1, 0>>
  /\ \E j, k \in DOMAIN data : j # k /\ SameCluster(j, k) /\ variant[j] = 1

\* C7: once a fit has raised, the call has ended in failure with nothing
\* returned, in the replicate that failed; a summary is returned only after
\* sims replicates of two fits each, none of which raised.
C7_FitFailureAbortsRun ==
  /\ fit_raised =>
       /\ pc = "error_fit"
       /\ performance = <<>>
       /\ i < sims
       /\ Len(significant_resultsAA) = i
       /\ Len(significant_resultsAB) = i
       /\ nfits \in {2 * i + 1, 2 * i + 2}
  /\ pc = "done" =>
       /\ ~fit_raised
       /\ nfits = 2 * sims
       /\ Len(significant_resultsAA) = sims
       /\ Len(significant_resultsAB) = sims
       /\ performance[1].den = sims
       /\ performance[2].den = sims

C7_Witness ==
  /\ fit_raised
  /\ pc = "error_fit"
  /\ i = 1
  /\ nfits = 4

\* C8: no replicate changes the real outcome or the cluster key of a row, and
\* the labels and synthetic outcomes a replicate fits on are a function of
\* that replicate's draw and the caller's data alone, from the draw until
\* both fits are recorded.
C8_NoCrossReplicateState ==
  [][/\ pc \in {"randomize", "fitAA", "fitAB", "record"} =>
          /\ outcome' = outcome
          /\ outcome = RealOutcome
          /\ period_city' = period_city
          /\ unique_PeriodCity' = unique_PeriodCity
     /\ pc \in {"fitAA", "fitAB", "record"} =>
          /\ variant' = variant
          /\ outcome_sim' = outcome_sim
     /\ pc = "randomize" /\ pc' = "fitAA" =>
          /\ variant' =
               [j \in DOMAIN RealOutcome |->
                  IF agg THEN binom'[j]
                  ELSE binom'[1 + Cardinality(
                         {g \in Groups(data, Frequency) :
                            KeyLess(g, GroupKey(data[j], Frequency))})]]
          /\ outcome_sim' =
               [j \in DOMAIN RealOutcome |->
                  IF variant'[j] = 1 THEN (RealOutcome[j] * MDE) \div 100
                  ELSE RealOutcome[j]]
    ]_vars

C8_Witness ==
  /\ pc = "fitAA"
  /\ i = 1
  /\ MDE = 101
  /\ significant_resultsAA = <<1>>
  /\ \E j \in DOMAIN variant : variant[j] = 1 /\ outcome[j] # 0
  /\ \E j \in DOMAIN variant : variant[j] = 0

\* C9: a replicate whose labels are all equal is recorded like any other when
\* the fits return: each collection gets one indicator, an undefined p-value
\* counts as not significant, and the loop goes on to the next replicate.
C9_DegenerateReplicateRecorded ==
  [][/\ Degenerate /\ pc = "fitAA" /\ ~fit_raised' => pc' = "fitAB"
     /\ Degenerate /\ pc = "fitAB" /\ ~fit_raised' => pc' = "record"
     /\ Degenerate /\ pc = "record" =>
          /\ significant_resultsAA' =
               Append(significant_resultsAA,
                      IF p_value_AA = NaN THEN 0
                      ELSE IF p_value_AA < alpha THEN 1 ELSE 0)
          /\ significant_resultsAB' =
               Append(significant_resultsAB,
                      IF p_value_AB = NaN THEN 0
                      ELSE IF p_value_AB < alpha THEN 1 ELSE 0)
          /\ pc' = IF i + 1 < sims THEN "randomize" ELSE "summary"
    ]_vars

C9_Witness ==
  /\ pc = "randomize"
  /\ i = 1
  /\ Degenerate
  /\ Len(binom) = 1
  /\ p_value_AA = NaN
  /\ p_value_AB = 10
  /\ significant_resultsAA = <<0>>
  /\ significant_resultsAB = <<1>>

\* C10: with MDE = 1.0 the synthetic outcome is the real outcome in every
\* replicate, the two indicators of a replicate agree, and the returned Type I
\* error rate equals the returned power.
C10_NullEffectEqualRates ==
  MDE = 100 =>
    /\ variant # <<>> => outcome_sim = RealOutcome
    /\ pc = "record" => p_value_AA = p_value_AB
    /\ significant_resultsAA = significant_resultsAB
    /\ pc = "done" => performance[1] = performance[2]

C10_Witness ==
  /\ MDE = 100
  /\ pc = "done"
  /\ sims = 2
  /\ performance[1].num = 1
  /\ \E j \in DOMAIN variant : variant[j] = 1 /\ outcome[j] # 0

\* C4: at order level every observation gets exactly one cluster key, and two
\* observations get the same key exactly when they share location and bucket.
C4_EveryRowOneKey ==
  ~agg /\ pc = "randomize" =>
    /\ DOMAIN period_city = DOMAIN data
    /\ \A j \in DOMAIN data : period_city[j] # NaN
    /\ \A j, k \in DOMAIN data :
         period_city[j] = period_city[k] <=> SameCluster(j, k)

====
